---- MODULE Spec2Model ----
(***************************************************************************)
(* Release discovery and stateful card delivery of movie_release_bot.py:   *)
(* the list store bot_data['item_lists'], the discovery commands, the      *)
(* next-release walk, the scheduled jobs, and the callback handlers        *)
(* (pagination, random selection, reroll).                                 *)
(*                                                                         *)
(* Strings that the program builds by concatenation are tuples of their    *)
(* parts; callback data "a_b_c" is the tuple <<"a","b","c">> that          *)
(* data.split("_") yields.  Dates are records [y, d] (year, day of year).  *)
(***************************************************************************)
EXTENDS Integers, Sequences, FiniteSets, TLC

\* ------------------------------------------------------------------ bounds
\* at most this many lists are ever created in the store
MaxLists == 2
\* the clock advances at most this many days past the first day
MaxDay == 1
\* search_days of the next-release walk (90 in the source), scaled down
SearchDays == 2

\* ------------------------------------------------------- program constants
FirstYear == 1970
Limit == 5
YearLimit == 3
MaxPage == 500

None == "None"
NoDate == [y |-> 0, d |-> 0]
\* the year of the first day of every behaviour, a year after FirstYear
CurYear == FirstYear + 1

\* ------------------------------------------------------------ conversions
\* the integers whose decimal rendering the model parses back
IntDomain == (-1 .. 9) \cup {16, 18, 28} \cup (FirstYear - 1 .. FirstYear + 3)

\* int(s): defined on the decimal renderings, ValueError on anything else
IsInt(s) == \E n \in IntDomain : ToString(n) = s
ParseInt(s) == CHOOSE n \in IntDomain : ToString(n) = s

\* strftime of a date: the tuple of its rendered parts
FmtDate(date) == <<ToString(date.d), ToString(date.y)>>

AddDays(date, n) == [y |-> date.y, d |-> date.d + n]
DateLess(a, b) == a.y < b.y \/ (a.y = b.y /\ a.d < b.d)

\* s[:n]
Take(s, n) == IF Len(s) <= n THEN s ELSE SubSeq(s, 1, n)
Min(a, b) == IF a <= b THEN a ELSE b

\* ------------------------------------------------------------ the catalog
\* the overview the catalog holds for an item: a text (a tuple of its parts)
\* or the empty text
OverviewOf(id) == IF id = 3 THEN <<>> ELSE <<"overview", ToString(id)>>

\* a raw hit of a result page
Raw(id, poster_path) ==
    [ id |-> id, poster_path |-> poster_path, overview |-> OverviewOf(id),
      title |-> <<"title", ToString(id)>>, vote_average |-> id + 5,
      genre_ids |-> IF id = 1 THEN <<28, 18>> ELSE <<>> ]

\* what a discover query may answer: result pages of raw hits, most popular
\* first; a hit's poster_path is None, empty or a path
RawPages ==
    { <<>>,
      << Raw(2, None) >>,
      << Raw(2, ""), Raw(3, "/p3") >>,
      << Raw(1, "/p1"), Raw(2, None), Raw(3, "/p3"), Raw(4, "/p4") >> }

\* a response of requests.get: a 2xx answer with a page of results, a non-2xx
\* answer whose JSON body has no "results", or no answer at all (requests raises)
Responses ==
    { [status |-> "ok", page |-> p] : p \in RawPages }
    \cup { [status |-> "http_error", page |-> <<>>],
           [status |-> "net_fail", page |-> <<>>] }

\* a hit of /discover/movie carries release_date, one of /discover/tv
\* first_air_date; a date-filtered query returns hits of the date asked for
Hit(raw, endpoint, date) ==
    [ id |-> raw.id, poster_path |-> raw.poster_path, overview |-> raw.overview,
      title |-> raw.title, vote_average |-> raw.vote_average, genre_ids |-> raw.genre_ids,
      release_date |-> IF endpoint = "movie" THEN date ELSE NoDate,
      first_air_date |-> IF endpoint = "tv" THEN date ELSE NoDate ]

Hits(page, endpoint, date) ==
    [i \in 1 .. Len(page) |-> Hit(page[i], endpoint, date)]

\* the media kinds /3/{item_type}/{id} serves; any other kind is a 404
DetailKinds == {"movie", "tv"}

\* the YouTube trailer the details of an item list, if any
TrailerOf(id) == IF id = 1 THEN "https://www.youtube.com/watch?v=k1" ELSE None

\* a mutant: no hit is dropped
PosterFilterKeepsAll(hits) == hits
\* [m for m in results if m.get("poster_path")]
RECURSIVE PosterFilter(_)
PosterFilter(hits) ==
    IF hits = <<>> THEN <<>>
    ELSE IF Head(hits).poster_path \notin {None, ""}
         THEN <<Head(hits)>> \o PosterFilter(Tail(hits))
         ELSE PosterFilter(Tail(hits))

\* f"https://image.tmdb.org/t/p/w780{item['poster_path']}"
PosterUrl(poster_path) == <<"https://image.tmdb.org/t/p/w780", poster_path>>

\* ------------------------------------------------------------- enrichment
\* the network faults of the details endpoint: the ids whose fetch fails
DetailFaults == { {}, {3} }

\* the record of one catalog call: the endpoint kind, the query, the number
\* of poster-bearing hits it gave (-1: the call raised; 0 for details), the
\* status of the response and the ids of those hits, in the order received
Call(op, kind, q, n, status, ids) ==
    [op |-> op, kind |-> kind, q |-> q, n |-> n, status |-> status, ids |-> ids]

Ids(hits) == [i \in 1 .. Len(hits) |-> hits[i].id]

\* _get_item_details_blocking raises on a failed fetch and on a 404
DetailsFails(item_id, item_type, down) ==
    item_id \in down \/ item_type \notin DetailKinds

DetailsCall(item, item_type, down) ==
    Call("details", item_type, <<ToString(item.id), item.poster_path>>,
         IF DetailsFails(item.id, item_type, down) THEN -1 ELSE 0,
         IF item_type \notin DetailKinds THEN "http_error"
         ELSE IF item.id \in down THEN "net_fail" ELSE "ok", <<>>)

\* the texts the translation service fails on (ts.translate_text raises)
TranslatorFails(text) == text = OverviewOf(4)

\* a mutant: a failure of the service gives the empty text
translate_text_or_nothing(text) ==
    IF text = <<>> THEN <<>>
    ELSE IF TranslatorFails(text) THEN <<>>
    ELSE <<"ru">> \o text
\* translate_text_blocking: the empty text stays empty, a failure of the
\* service is swallowed and gives the text back untranslated
translate_text_blocking(text) ==
    IF text = <<>> THEN <<>>
    ELSE IF TranslatorFails(text) THEN text
    ELSE <<"ru">> \o text

\* provider names, numbered in alphabetical order
ProviderNames == 1 .. 4

\* one region's entry of "watch/providers": the keys it has, and its
\* flatrate and buy lists (empty when the key is absent)
Entry(keys, flatrate, buy) == [keys |-> keys, flatrate |-> flatrate, buy |-> buy]

\* the "results" of "watch/providers": per region no entry (<<>>) or <<entry>>
Providers(ru, us) == [RU |-> ru, US |-> us]

\* the provider data the details of an item carry
ProvidersOf(id) ==
    IF id = 1 THEN Providers(<<Entry({"flatrate"}, <<1>>, <<>>)>>,
                             <<Entry({"flatrate"}, <<2>>, <<>>)>>)
    ELSE IF id = 3 THEN Providers(<<>>, <<Entry({"buy"}, <<>>, <<4, 3, 2>>)>>)
    ELSE IF id = 4 THEN Providers(<<Entry({}, <<>>, <<>>)>>,
                                  <<Entry({"flatrate", "buy"}, <<2>>, <<3>>)>>)
    ELSE Providers(<<>>, <<>>)

\* sorted(list(set(providers)))
RECURSIVE SortedSet(_)
SortedSet(S) ==
    IF S = {} THEN <<>>
    ELSE LET m == CHOOSE x \in S : \A y \in S : x <= y
         IN <<m>> \o SortedSet(S \ {m})

Range(s) == { s[i] : i \in DOMAIN s }
Unknown == <<"unknown">>

\* the providers _get_watch_status_string lists for one entry: the first two
\* of flatrate, or else the first two of buy
EntryProviders(results) ==
    IF results.flatrate # <<>> THEN Take(results.flatrate, 2)
    ELSE IF results.buy # <<>> THEN Take(results.buy, 2)
    ELSE <<>>

\* results.get("RU", results.get("US")): the US entry only when there is no
\* RU entry at all
get_watch_status_string(watch_providers_data) ==
    LET results == IF watch_providers_data.RU # <<>> THEN watch_providers_data.RU
                   ELSE watch_providers_data.US
    IN IF results = <<>> THEN Unknown
       ELSE IF results[1].keys = {} THEN Unknown
       ELSE IF EntryProviders(results[1]) # <<>>
            THEN <<"online">> \o SortedSet(Range(EntryProviders(results[1])))
       ELSE Unknown

\* the record _enrich_item_data returns once the details are fetched
enrich_item_data(item, item_type) ==
    [ id |-> item.id, poster_path |-> item.poster_path,
      title |-> item.title, vote_average |-> item.vote_average, genre_ids |-> item.genre_ids,
      release_date |-> item.release_date, first_air_date |-> item.first_air_date,
      item_type |-> item_type,
      overview |-> translate_text_blocking(item.overview),
      watch_status |-> get_watch_status_string(ProvidersOf(item.id)),
      trailer_url |-> TrailerOf(item.id),
      poster_url |-> PosterUrl(item.poster_path) ]

\* [await _enrich_item_data(m, kind) for m in hits]: one details call per hit,
\* in order; the first failing fetch raises and ends the comprehension
EnrichBatch(hits, item_type, down) ==
    LET bad == { i \in 1 .. Len(hits) : DetailsFails(hits[i].id, item_type, down) }
        stop == IF bad = {} THEN Len(hits)
                ELSE CHOOSE i \in bad : \A j \in bad : i <= j
    IN [ raised |-> bad # {},
         calls |-> [i \in 1 .. stop |-> DetailsCall(hits[i], item_type, down)],
         items |-> IF bad # {} THEN <<>>
                   ELSE [i \in 1 .. Len(hits) |-> enrich_item_data(hits[i], item_type)] ]

\* ------------------------------------------------------ date-driven search
\* one requests.get on /discover/{endpoint} for an exact date; `checked` says
\* whether the caller calls raise_for_status().  Without it a non-2xx body
\* has no "results" and reads as an empty page.
Discover(endpoint, date, region, resp, checked) ==
    LET raised == resp.status = "net_fail"
                  \/ (checked /\ resp.status = "http_error")
        hits == IF resp.status = "ok"
                THEN PosterFilter(Hits(resp.page, endpoint, date)) ELSE <<>>
    IN [ raised |-> raised,
         hits |-> IF raised THEN <<>> ELSE hits,
         call |-> Call("discover", endpoint, <<"date">> \o FmtDate(date) \o <<region>>,
                       IF raised THEN -1 ELSE Len(hits), resp.status,
                       IF raised THEN <<>> ELSE Ids(hits)) ]

\* the outcome of a finder: whether it raised, the catalog calls it made, and
\* the enriched items it returned
Enriched(calls, hits, item_type, down) ==
    LET e == EnrichBatch(hits, item_type, down)
    IN [raised |-> e.raised, calls |-> calls \o e.calls, items |-> e.items]

Raised(calls) == [raised |-> TRUE, calls |-> calls, items |-> <<>>]

\* a mutant: both regions are always asked and their hits merged
todays_releases_of_both_regions(limit, today_, ru, us, down) ==
    LET a == Discover("movie", today_, "RU", ru, TRUE)
        b == Discover("movie", today_, "US", us, TRUE)
    IN IF a.raised THEN Raised(<<a.call>>)
       ELSE IF b.raised THEN Raised(<<a.call, b.call>>)
       ELSE Enriched(<<a.call, b.call>>, Take(a.hits \o b.hits, limit), "movie", down)

\* a mutant: the fallback region is never asked
todays_releases_without_fallback(limit, today_, ru, us, down) ==
    LET a == Discover("movie", today_, "RU", ru, TRUE)
    IN IF a.raised THEN Raised(<<a.call>>)
       ELSE Enriched(<<a.call>>, Take(a.hits, limit), "movie", down)

get_todays_top_digital_releases_blocking(limit, today_, ru, us, down) ==
    LET a == Discover("movie", today_, "RU", ru, TRUE)
        b == Discover("movie", today_, "US", us, TRUE)
    IN IF a.raised THEN Raised(<<a.call>>)
       ELSE IF a.hits # <<>>
            THEN Enriched(<<a.call>>, Take(a.hits, limit), "movie", down)
       ELSE IF b.raised THEN Raised(<<a.call, b.call>>)
       ELSE Enriched(<<a.call, b.call>>, Take(b.hits, limit), "movie", down)

get_todays_top_series_premieres_blocking(limit, today_, ru, down) ==
    LET a == Discover("tv", today_, "RU", ru, TRUE)
    IN IF a.raised THEN Raised(<<a.call>>)
       ELSE Enriched(<<a.call>>, Take(a.hits, limit), "tv", down)

\* ---------------------------------------------------------------- the store
\* str(uuid.uuid4()): an identifier that no earlier call returned
Uuids == <<"u1", "u2", "u3", "u4", "u5", "u6">>
\* a mutant: an identifier generator that repeats itself
NewListIdRepeated(store) == Uuids[1]
\* a mutant: a generator whose second identifier repeats the first
NewListIdCollides(store) ==
    Uuids[IF DOMAIN store = {} THEN 1 ELSE Cardinality(DOMAIN store)]
NewListId(store) == Uuids[Cardinality(DOMAIN store) + 1]

\* context.bot_data.setdefault('item_lists', {})[list_id] = items
StoreList(store, list_id, items) ==
    [k \in DOMAIN store \cup {list_id} |-> IF k = list_id THEN items ELSE store[k]]

\* ------------------------------------------------------------ the renderer
Button(text, callback_data, url) ==
    [text |-> text, callback_data |-> callback_data, url |-> url]

Noop == <<"noop">>
\* a mutant: a token that names the position after the one asked for
PageTokenOffByOne(list_id, index) == <<"page", list_id, ToString(index + 1)>>
PageToken(list_id, index) == <<"page", list_id, ToString(index)>>

\* a mutant: the row is built whatever the total, and the "previous" control
\* whatever the index
NavRowUnguarded(is_paginated, current_index, total_count, list_id) ==
    IF is_paginated
    THEN << << Button(<<"prev">>, PageToken(list_id, current_index - 1), None),
               Button(<<"[", ToString(current_index + 1), "/", ToString(total_count), "]">>,
                      Noop, None),
               IF current_index < total_count - 1
               THEN Button(<<"next">>, PageToken(list_id, current_index + 1), None)
               ELSE Button(<<" ">>, Noop, None) >> >>
    ELSE <<>>

\* the navigation row of format_item_message
NavRow(is_paginated, current_index, total_count, list_id) ==
    IF is_paginated /\ total_count > 1
    THEN << << IF current_index > 0
               THEN Button(<<"prev">>, PageToken(list_id, current_index - 1), None)
               ELSE Button(<<" ">>, Noop, None),
               Button(<<"[", ToString(current_index + 1), "/", ToString(total_count), "]">>,
                      Noop, None),
               IF current_index < total_count - 1
               THEN Button(<<"next">>, PageToken(list_id, current_index + 1), None)
               ELSE Button(<<" ">>, Noop, None) >> >>
    ELSE <<>>

\* reroll_data is <<>> when the caller passes none
format_item_message(item_data, title_prefix, is_paginated, current_index, total_count, list_id, reroll_data) ==
    LET nav == NavRow(is_paginated, current_index, total_count, list_id)
        action_buttons ==
            (IF reroll_data # <<>>
             THEN <<Button(<<"reroll">>, reroll_data, None)>> ELSE <<>>)
            \o (IF item_data.trailer_url # None
                THEN <<Button(<<"trailer">>, <<>>, item_data.trailer_url)>> ELSE <<>>)
        keyboard == nav \o (IF action_buttons # <<>> THEN <<action_buttons>> ELSE <<>>)
    IN [ text |-> [ prefix |-> title_prefix, title |-> item_data.id,
                    watch_status |-> item_data.watch_status,
                    overview |-> item_data.overview ],
         poster |-> item_data.poster_url,
         markup |-> keyboard ]

\* ------------------------------------------------------------------ state
VARIABLES
    item_lists,   \* bot_data['item_lists']: list id -> sequence of enriched records
    chat_ids,     \* bot_data['chat_ids']: the subscribed chats
    today,        \* datetime.now(timezone.utc).date()
    walk,         \* the next-release walk in progress: <<>> or <<its frame>>
    out,          \* what the handler that ran last did, until the next update
    jobs          \* the scheduled runs in progress: job name -> <<>> or <<its frame>>

vars == <<item_lists, chat_ids, today, walk, out, jobs>>

\* the two jobs main registers with run_daily
JobNames == {"daily_movie", "daily_series"}

Chats == {1, 2}

\* one call on the chat platform: reply/send/edit/delete, what it carried,
\* whether it succeeded, and the chat it went to (0: the chat of the update)
Msg(op, what, ok, to) == [op |-> op, what |-> what, ok |-> ok, to |-> to]

\* the record of one handler run
Out(h, data, raised, calls, msgs, cards, ret) ==
    [ h |-> h, data |-> data, raised |-> raised, calls |-> calls,
      msgs |-> msgs, cards |-> cards, ret |-> ret ]

Idle == Out("idle", <<>>, FALSE, <<>>, <<>>, <<>>, <<>>)

Ready == out.h = "idle" /\ walk = <<>>
HasRoom(n) == Cardinality(DOMAIN item_lists) + n <= MaxLists

Init ==
    /\ item_lists = << >>
    /\ chat_ids = {}
    /\ today = [y |-> CurYear, d |-> 0]
    /\ walk = <<>>
    /\ out = Idle
    /\ jobs = [j \in JobNames |-> <<>>]

\* the clock passes midnight (UTC)
Tick ==
    /\ today.d < MaxDay
    /\ today' = AddDays(today, 1)
    /\ UNCHANGED <<jobs, item_lists, chat_ids, walk, out>>

\* run_polling takes the next update once the handler of the last one is done
NextUpdate ==
    /\ out.h # "idle"
    /\ out' = Idle
    /\ UNCHANGED <<jobs, item_lists, chat_ids, today, walk>>

start_command ==
    /\ Ready
    /\ \E chat_id \in Chats :
        /\ chat_ids' = chat_ids \cup {chat_id}
        /\ out' = Out("start", <<ToString(chat_id)>>, FALSE, <<>>,
                      <<Msg("reply_text", "help", TRUE, 0)>>, <<>>, <<>>)
    /\ UNCHANGED <<jobs, item_lists, today, walk>>

stop_command ==
    /\ Ready
    /\ \E chat_id \in Chats :
        /\ chat_ids' = chat_ids \ {chat_id}
        /\ out' = Out("stop", <<ToString(chat_id)>>, FALSE, <<>>,
                      <<Msg("reply_text",
                            IF chat_id \in chat_ids THEN "unsubscribed" ELSE "not_subscribed",
                            TRUE, 0)>>, <<>>, <<>>)
    /\ UNCHANGED <<jobs, item_lists, today, walk>>

\* ---------------------------------------------------- discovery commands
\* a mutant: a command without its except clause
CommandExceptMissing(h, data, calls) ==
    Out(h, data, TRUE, calls, <<Msg("reply_text", "searching", TRUE, 0)>>, <<>>, <<>>)
\* `except Exception`: the error is logged and answered with the apology
CommandExcept(h, data, calls) ==
    Out(h, data, FALSE, calls,
        <<Msg("reply_text", "searching", TRUE, 0), Msg("reply_text", "error", TRUE, 0)>>,
        <<>>, <<>>)

\* the tail every discovery command shares once its finder `f` is done:
\* the apology if it raised, the no-results reply if it found nothing, else
\* a new list in the store and its first card.  [store, out]
DeliverList(h, data, title_prefix, f, ret, store) ==
    LET searching == Msg("reply_text", "searching", TRUE, 0)
        list_id == NewListId(store)
        card == format_item_message(f.items[1], title_prefix, TRUE, 0,
                                    Len(f.items), list_id, <<>>)
    IN IF f.raised
       THEN [store |-> store, out |-> CommandExcept(h, data, f.calls)]
       ELSE IF f.items = <<>>
       THEN [ store |-> store,
              out |-> Out(h, data, FALSE, f.calls,
                          <<searching, Msg("reply_text", "none", TRUE, 0)>>, <<>>, ret) ]
       ELSE [ store |-> StoreList(store, list_id, f.items),
              out |-> Out(h, data, FALSE, f.calls,
                          <<searching, Msg("reply_photo", "card", TRUE, 0)>>,
                          <<card>>, ret) ]

\* the fallback region is asked only when the first answer has no poster hit
Fallback(endpoint, ru) ==
    IF Discover(endpoint, today, "RU", ru, TRUE).raised
       \/ Discover(endpoint, today, "RU", ru, TRUE).hits # <<>>
    THEN {ru} ELSE Responses

releases_movie_command ==
    /\ Ready /\ HasRoom(1)
    /\ \E ru \in Responses, down \in DetailFaults :
         \E us \in Fallback("movie", ru) :
            LET f == get_todays_top_digital_releases_blocking(Limit, today, ru, us, down)
                r == DeliverList("releases_movie", <<>>, <<"today_movie">>, f, <<>>, item_lists)
            IN item_lists' = r.store /\ out' = r.out
    /\ UNCHANGED <<jobs, chat_ids, today, walk>>

releases_series_command ==
    /\ Ready /\ HasRoom(1)
    /\ \E ru \in Responses, down \in DetailFaults :
            LET f == get_todays_top_series_premieres_blocking(Limit, today, ru, down)
                r == DeliverList("releases_series", <<>>, <<"today_tv">>, f, <<>>, item_lists)
            IN item_lists' = r.store /\ out' = r.out
    /\ UNCHANGED <<jobs, chat_ids, today, walk>>

\* ------------------------------------------------ the next-release walk
\* a mutant: the walk goes on past a date with hits
WalkNeverStops(hits) == FALSE
\* the loop test of the walk: `if releases:` ends it at the first date with hits
WalkStops(hits) == hits # <<>>

\* a mutant: a loop that tests its range after the first iteration
WalkInRangeAfterFirst(i, search_days) == i = 0 \/ i < search_days
\* `for i in range(search_days)`: whether the loop has an iteration i
WalkInRange(i, search_days) == i < search_days

\* one iteration of the loop of _get_next_digital_releases_blocking: the
\* query of target_date in region RU and, when that gives no poster hit, US.
\* No raise_for_status() here.  [raised, calls, hits]
next_digital_releases_day(target_date, ru, us) ==
    LET a == Discover("movie", target_date, "RU", ru, FALSE)
        b == Discover("movie", target_date, "US", us, FALSE)
    IN IF a.raised THEN [raised |-> TRUE, calls |-> <<a.call>>, hits |-> <<>>]
       ELSE IF a.hits # <<>> THEN [raised |-> FALSE, calls |-> <<a.call>>, hits |-> a.hits]
       ELSE [raised |-> b.raised, calls |-> <<a.call, b.call>>, hits |-> b.hits]

\* one iteration of the loop of _get_next_series_premieres_blocking
next_series_premieres_day(target_date, ru) ==
    LET a == Discover("tv", target_date, "RU", ru, FALSE)
    IN [raised |-> a.raised, calls |-> <<a.call>>, hits |-> a.hits]

WalkDay(endpoint, target_date, ru, us) ==
    IF endpoint = "movie" THEN next_digital_releases_day(target_date, ru, us)
    ELSE next_series_premieres_day(target_date, ru)

\* the frame of a walk: start_date is tomorrow, i the loop index
WalkFrame(h, endpoint, limit, search_days) ==
    [ h |-> h, endpoint |-> endpoint, limit |-> limit, search_days |-> search_days,
      start_date |-> AddDays(today, 1), i |-> 0, calls |-> <<>> ]

NextPrefix(endpoint, release_date) ==
    <<IF endpoint = "movie" THEN "next_movie" ELSE "next_tv">> \o FmtDate(release_date)

next_movie_command ==
    /\ Ready /\ HasRoom(1)
    /\ walk' = <<WalkFrame("next_movie", "movie", Limit, SearchDays)>>
    /\ UNCHANGED <<jobs, item_lists, chat_ids, today, out>>

next_series_command ==
    /\ Ready /\ HasRoom(1)
    /\ walk' = <<WalkFrame("next_series", "tv", Limit, SearchDays)>>
    /\ UNCHANGED <<jobs, item_lists, chat_ids, today, out>>

\* the second region is asked only for movies, when the first has no poster hit
WalkFallback(endpoint, target_date, ru) ==
    IF endpoint = "movie" /\ ~Discover(endpoint, target_date, "RU", ru, FALSE).raised
       /\ Discover(endpoint, target_date, "RU", ru, FALSE).hits = <<>>
    THEN Responses ELSE {ru}

\* what a walk returns, (items, date), with the start_date and search_days of
\* the call
WalkReturn(w, items, date) ==
    [ items |-> items, date |-> date, start_date |-> w.start_date,
      search_days |-> w.search_days ]

\* the walk leaves its loop: range(search_days) is exhausted and it returns
\* ([], None), which the command answers with the no-results reply
WalkExhausted ==
    /\ walk # <<>>
    /\ ~WalkInRange(walk[1].i, walk[1].search_days)
    /\ LET w == walk[1]
           f == [raised |-> FALSE, calls |-> w.calls, items |-> <<>>]
           r == DeliverList(w.h, <<>>, <<>>, f,
                            <<WalkReturn(w, <<>>, NoDate)>>, item_lists)
       IN item_lists' = r.store /\ out' = r.out
    /\ walk' = <<>>
    /\ UNCHANGED <<jobs, chat_ids, today>>

\* one date of the walk: it raises, or finds hits, enriches them and returns
\* them with target_date (and the command stores and delivers them), or goes
\* on to the next date.  requests.get blocks the event loop: no other handler
\* runs between two dates.
WalkStep ==
    /\ walk # <<>>
    /\ WalkInRange(walk[1].i, walk[1].search_days)
    /\ LET w == walk[1]
           target_date == AddDays(w.start_date, w.i)
       IN \E ru \in Responses, down \in DetailFaults :
            \E us \in WalkFallback(w.endpoint, target_date, ru) :
               LET day == WalkDay(w.endpoint, target_date, ru, us)
                   calls == w.calls \o day.calls
                   f == IF day.raised THEN Raised(calls)
                        ELSE Enriched(calls, Take(day.hits, w.limit), w.endpoint, down)
                   r == DeliverList(w.h, <<>>, NextPrefix(w.endpoint, target_date), f,
                                    <<WalkReturn(w, f.items, target_date)>>, item_lists)
               IN IF day.raised \/ WalkStops(day.hits)
                  THEN item_lists' = r.store /\ out' = r.out /\ walk' = <<>>
                  ELSE /\ down = {}
                       /\ walk' = <<[w EXCEPT !.i = w.i + 1, !.calls = calls]>>
                       /\ UNCHANGED <<jobs, item_lists, out>>
    /\ UNCHANGED <<jobs, chat_ids, today>>

\* -------------------------------------------------------------------- year
YearArgs ==
    { <<>>, <<"x">>, <<ToString(FirstYear - 1)>>, <<ToString(FirstYear)>>,
      <<ToString(CurYear)>>, <<ToString(CurYear + 1)>> }

year_command ==
    /\ Ready /\ HasRoom(1)
    /\ \E args \in YearArgs :
        IF args = <<>>
        THEN /\ out' = Out("year", args, FALSE, <<>>,
                           <<Msg("reply_text", "usage", TRUE, 0)>>, <<>>, <<>>)
             /\ UNCHANGED item_lists
        ELSE IF ~IsInt(args[1]) \/ ~(FirstYear <= ParseInt(args[1]) /\ ParseInt(args[1]) <= today.y)
        THEN /\ out' = Out("year", args, FALSE, <<>>,
                           <<Msg("reply_text", "bad_year", TRUE, 0)>>, <<>>, <<>>)
             /\ UNCHANGED item_lists
        ELSE \E resp \in Responses, down \in DetailFaults :
            LET year == ParseInt(args[1])
                date == [y |-> year, d |-> today.d]
                a == Discover("movie", date, "", resp, FALSE)
                f == IF a.raised THEN Raised(<<a.call>>)
                     ELSE Enriched(<<a.call>>, Take(a.hits, YearLimit), "movie", down)
                r == DeliverList("year", args, <<"year", ToString(year)>>, f, <<>>,
                                 item_lists)
            IN item_lists' = r.store /\ out' = r.out
    /\ UNCHANGED <<jobs, chat_ids, today, walk>>

\* ----------------------------------------------------------- scheduled jobs
\* a mutant: a loop over every chat known, subscribed or not
OrdersOfAllChats(S) ==
    { s \in [1 .. Cardinality(Chats) -> Chats] : \A i, j \in DOMAIN s : i # j => s[i] # s[j] }
Orders(S) ==
    { s \in [1 .. Cardinality(S) -> S] : \A i, j \in DOMAIN s : i # j => s[i] # s[j] }

\* the loop `for chat_id in list(chat_ids)`: a new list and a card per chat;
\* a send that fails raises out of the loop.  [store, msgs, cards]
RECURSIVE JobLoop(_, _, _, _, _)
JobLoop(order, bad, items, title_prefix, store) ==
    IF order = <<>> THEN [store |-> store, msgs |-> <<>>, cards |-> <<>>]
    ELSE LET chat_id == Head(order)
             list_id == NewListId(store)
             stored == StoreList(store, list_id, items)
             card == format_item_message(items[1], title_prefix, TRUE, 0,
                                         Len(items), list_id, <<>>)
             msg == Msg("send_photo", "card", chat_id # bad, chat_id)
             rest == JobLoop(Tail(order), bad, items, title_prefix, stored)
         IN IF chat_id = bad
            THEN [store |-> stored, msgs |-> <<msg>>, cards |-> <<card>>]
            ELSE [store |-> rest.store, msgs |-> <<msg>> \o rest.msgs,
                  cards |-> <<card>> \o rest.cards]

\* a job once its finder `f` is done.  [store, out]
JobRun(h, title_prefix, f, order, bad, store) ==
    LET l == JobLoop(order, bad, f.items, title_prefix, store)
    IN IF f.raised \/ f.items = <<>>
       THEN [store |-> store, out |-> Out(h, <<>>, FALSE, f.calls, <<>>, <<>>, <<>>)]
       ELSE [store |-> l.store, out |-> Out(h, <<>>, FALSE, f.calls, l.msgs, l.cards, <<>>)]

daily_movie_check_job ==
    /\ Ready /\ chat_ids # {} /\ HasRoom(Cardinality(chat_ids))
    /\ \E ru \in Responses, down \in DetailFaults :
         \E us \in Fallback("movie", ru) :
           \E order \in Orders(chat_ids), bad \in chat_ids \cup {0} :
            LET f == get_todays_top_digital_releases_blocking(Limit, today, ru, us, down)
                r == JobRun("daily_movie", <<"today_movie">>, f, order, bad, item_lists)
            IN item_lists' = r.store /\ out' = r.out
    /\ UNCHANGED <<jobs, chat_ids, today, walk>>

daily_series_check_job ==
    /\ Ready /\ chat_ids # {} /\ HasRoom(Cardinality(chat_ids))
    /\ \E ru \in Responses, down \in DetailFaults :
           \E order \in Orders(chat_ids), bad \in chat_ids \cup {0} :
            LET f == get_todays_top_series_premieres_blocking(Limit, today, ru, down)
                r == JobRun("daily_series", <<"today_tv">>, f, order, bad, item_lists)
            IN item_lists' = r.store /\ out' = r.out
    /\ UNCHANGED <<jobs, chat_ids, today, walk>>

\* ------------------------------------------- scheduled runs, step by step
\* A job is a task of its own on the event loop: it runs between the
\* handlers, and the handlers run while it is suspended in an await (the
\* enrichment of its finder, send_photo, asyncio.sleep(1)).
\* The frame of a run: its position, the items its finder returned, the
\* chats of list(chat_ids) still to visit, that list as a set, and the sends
\* made so far (to whom, under which list id, whether the platform accepted
\* it, and whether the chat was subscribed at that moment).
JobFrame(pc, items, order, snapshot, sent) ==
    [pc |-> pc, items |-> items, order |-> order, snapshot |-> snapshot, sent |-> sent]

JobPrefix(j) == IF j = "daily_movie" THEN <<"today_movie">> ELSE <<"today_tv">>

\* the job fires, once a day: `if not chat_ids: return`, then the finder; a
\* finder that raises or finds nothing ends the run
JobSearch(j) ==
    /\ jobs[j] = <<>>
    /\ chat_ids # {}
    /\ \E ru \in Responses, down \in DetailFaults :
         \E us \in Fallback("movie", ru) :
            LET f == IF j = "daily_movie"
                     THEN get_todays_top_digital_releases_blocking(Limit, today, ru, us, down)
                     ELSE get_todays_top_series_premieres_blocking(Limit, today, ru, down)
            IN jobs' = [jobs EXCEPT ![j] =
                          <<JobFrame(IF f.raised \/ f.items = <<>> THEN "done" ELSE "found",
                                     f.items, <<>>, {}, <<>>)>>]
    /\ UNCHANGED <<item_lists, chat_ids, today, walk, out>>

\* `for chat_id in list(chat_ids)`: the copy of the set the loop iterates
JobLoopStart(j) ==
    /\ jobs[j] # <<>> /\ jobs[j][1].pc = "found"
    /\ \E order \in Orders(chat_ids) :
         jobs' = [jobs EXCEPT ![j] =
                    <<JobFrame(IF order = <<>> THEN "done" ELSE "loop",
                               jobs[j][1].items, order, chat_ids, <<>>)>>]
    /\ UNCHANGED <<item_lists, chat_ids, today, walk, out>>

\* one iteration: a new id, the list stored under it, the card built, and
\* send_photo awaited; a send that raises ends the run in the except clause
JobSend(j) ==
    /\ jobs[j] # <<>> /\ jobs[j][1].pc = "loop"
    /\ HasRoom(1)
    /\ \E ok \in BOOLEAN :
         LET frame == jobs[j][1]
             chat_id == Head(frame.order)
             list_id == NewListId(item_lists)
             card == format_item_message(frame.items[1], JobPrefix(j), TRUE, 0,
                                         Len(frame.items), list_id, <<>>)
             sent == Append(frame.sent,
                            [ to |-> chat_id, list_id |-> list_id, ok |-> ok,
                              subscribed |-> chat_id \in chat_ids,
                              tokens |-> { b.callback_data : b \in UNION {
                                  { card.markup[r][k] : k \in DOMAIN card.markup[r] } :
                                     r \in DOMAIN card.markup } } ])
         IN /\ item_lists' = StoreList(item_lists, list_id, frame.items)
            /\ jobs' = [jobs EXCEPT ![j] =
                          <<JobFrame(IF ~ok \/ Tail(frame.order) = <<>> THEN "done" ELSE "loop",
                                     frame.items, Tail(frame.order), frame.snapshot, sent)>>]
    /\ UNCHANGED <<chat_ids, today, walk, out>>

daily_movie_check_steps ==
    JobSearch("daily_movie") \/ JobLoopStart("daily_movie") \/ JobSend("daily_movie")

daily_series_check_steps ==
    JobSearch("daily_series") \/ JobLoopStart("daily_series") \/ JobSend("daily_series")

\* --------------------------------------------------------------- pagination
\* the callback data that may arrive under the pattern ^page_: the tokens of
\* any card, tokens of lists the store does not hold, and undecodable ones
PageIndexes == {"-1", "0", "1", "2", "3", "5", "x"}
PageInputs ==
    { <<"page", id, ix>> : id \in {Uuids[k] : k \in 1 .. MaxLists} \cup {"abc123"},
                           ix \in PageIndexes }
    \cup { <<"page", "u1">>, <<"page", "u1", "0", "0">> }

\* a mutant: a lookup that defaults to the empty list, .get(list_id, [])
LookupDefaultsToEmpty(store, list_id) ==
    IF list_id \in DOMAIN store THEN <<store[list_id]>> ELSE << <<>> >>
\* context.bot_data.get('item_lists', {}).get(list_id): <<>> stands for None
Lookup(store, list_id) == IF list_id \in DOMAIN store THEN <<store[list_id]>> ELSE <<>>

\* the title prefix pagination_handler rebuilds from the item's date and the
\* current date
PageTitlePrefix(item, today_) ==
    LET date == IF item.release_date # NoDate THEN item.release_date
                ELSE item.first_air_date
    IN IF date = NoDate THEN <<"plain">>
       ELSE IF item.item_type = "movie"
            THEN IF date = today_ THEN <<"today_movie">>
                 ELSE IF DateLess(today_, date) THEN <<"next_movie">> \o FmtDate(date)
                 ELSE <<"year", ToString(date.y)>>
       ELSE IF item.item_type = "tv"
            THEN IF date = today_ THEN <<"today_tv">>
                 ELSE <<"next_tv">> \o FmtDate(date)
       ELSE <<"plain">>

\* whether pagination_handler can decode the token: three fields, the last
\* an integer
PageDecodes(data) == Len(data) = 3 /\ IsInt(data[3])

\* `not items or not (0 <= new_index < len(items))`
PageStale(found, new_index) ==
    found = <<>> \/ found[1] = <<>> \/ ~(0 <= new_index /\ new_index < Len(found[1]))

\* the card pagination_handler renders for a decodable, non-stale token
PageCard(data, store, today_) ==
    LET items == store[data[2]]
        new_index == ParseInt(data[3])
        item == items[new_index + 1]
    IN format_item_message(item, PageTitlePrefix(item, today_), TRUE, new_index,
                           Len(items), data[2], <<>>)

\* the whole handler; edit_ok says whether the platform accepts the edit
PageOut(data, store, today_, edit_ok) ==
    IF ~PageDecodes(data)
    THEN Out("page", data, FALSE, <<>>, <<>>, <<>>, <<>>)
    ELSE IF PageStale(Lookup(store, data[2]), ParseInt(data[3]))
    THEN Out("page", data, ~edit_ok, <<>>,
             <<Msg("edit_text", "stale", edit_ok, 0)>>, <<>>, <<>>)
    ELSE Out("page", data, FALSE, <<>>,
             <<Msg("edit_media", "card", edit_ok, 0)>>,
             <<PageCard(data, store, today_)>>, <<>>)

pagination_handler ==
    /\ Ready
    /\ \E data \in PageInputs, edit_ok \in BOOLEAN :
         /\ (~PageDecodes(data) => edit_ok)
         /\ out' = PageOut(data, item_lists, today, edit_ok)
    /\ UNCHANGED <<jobs, item_lists, chat_ids, today, walk>>

\* ------------------------------------------------------------ random pick
\* the genre ids of the cached taxonomies (bot_data['movie_genres_by_name'],
\* bot_data['tv_genres_by_name']) for the names the choosers offer
MovieGenreIds == {28}
TvGenreIds == {18}

\* the callback data of the buttons random_movie_command shows
random_movie_command ==
    { <<"random", "movie", "cartoon">>, <<"random", "movie", "anime">> }
    \cup { <<"random", "movie", "genre", ToString(g)>> : g \in MovieGenreIds }

\* the callback data of the buttons random_series_command shows
random_series_command ==
    { <<"random", "series", "genre", ToString(g)>> : g \in TvGenreIds }

ChooserTokens == random_movie_command \cup random_series_command

\* callback data no chooser emits, under the prefix `action`
Undecodable(action) ==
    { <<action, "movie">>, <<action, "movie", "genre">>,
      <<action, "movie", "genre", "x">>, <<action, "film", "genre", "28">>,
      <<action, "movie", "zzz">>, <<action, "series", "cartoon">> }

\* a mutant: the control is rebuilt from the media kind and the selector only
ReplaceRandomDropsRest(data) == <<"reroll">> \o SubSeq(data, 2, Min(3, Len(data)))
\* data.replace("random_", "reroll_"): every field "random" that an
\* underscore follows becomes "reroll"
ReplaceRandom(data) ==
    [i \in 1 .. Len(data) |->
        IF data[i] = "random" /\ i < Len(data) THEN "reroll" ELSE data[i]]

\* the filter find_and_send_random_item builds from item_type, selection_type
\* and rest: <<with_genres, without_genres, with_keywords, without_keywords>>
AnimationId == "16"
AnimeKeywordId == "210024"
RandomParams(item_type, selection_type, rest) ==
    IF item_type = "movie" /\ selection_type = "genre"
    THEN <<rest[1], AnimationId, "", "">>
    ELSE IF item_type = "movie" /\ selection_type = "cartoon"
    THEN <<AnimationId, "", "", AnimeKeywordId>>
    ELSE IF item_type = "movie" /\ selection_type = "anime"
    THEN <<AnimationId, "", AnimeKeywordId, "">>
    ELSE IF item_type = "series" /\ selection_type = "genre"
    THEN <<rest[1], "", "", "">>
    ELSE <<"", "", "", "">>

\* whether lines 472-498 raise: the unpacking needs three fields, a genre
\* selection needs rest[0] and int(rest[0])
RandomDecodeRaises(data) ==
    \/ Len(data) < 3
    \/ /\ data[2] \in {"movie", "series"} /\ data[3] = "genre"
       /\ (Len(data) < 4 \/ ~IsInt(data[4]))

\* the first answer of /discover for page 1: total_pages may be missing
FirstResponses ==
    { [status |-> "ok", total_pages |-> t] : t \in {<<>>, <<0>>, <<1>>, <<2>>} }
    \cup { [status |-> "http_error", total_pages |-> <<>>],
           [status |-> "net_fail", total_pages |-> <<>>] }

\* a mutant: the page count as reported, without the cap
TotalPagesUncapped(r1) == IF r1.total_pages = <<>> THEN 1 ELSE r1.total_pages[1]
\* min(api_data.get("total_pages", 1), 500)
TotalPages(r1) == Min(IF r1.total_pages = <<>> THEN 1 ELSE r1.total_pages[1], MaxPage)

\* the faults of the chat platform during one run: whether the progress
\* edit, the edit of the result (no-match text or card) and the edit of the
\* apology succeed
EditFaults == [progress_ok : BOOLEAN, result_ok : BOOLEAN, error_ok : BOOLEAN]
NoFaults == { [progress_ok |-> TRUE, result_ok |-> TRUE, error_ok |-> TRUE] }

\* the except branch: the apology is edited in, and a failing edit escapes
RandomExcept(h, data, calls, msgs, env) ==
    Out(h, data, ~env.error_ok, calls,
        msgs \o <<Msg("edit_text", "error", env.error_ok, 0)>>, <<>>, <<>>)

\* an edit inside the try block: done if it succeeds, the except branch if not
RandomEdit(h, data, calls, msgs, op, what, cards, env) ==
    IF env.result_ok
    THEN Out(h, data, FALSE, calls, msgs \o <<Msg(op, what, TRUE, 0)>>, cards, <<>>)
    ELSE RandomExcept(h, data, calls, msgs \o <<Msg(op, what, FALSE, 0)>>, env)

\* find_and_send_random_item.  `pre` are the platform calls the caller made
\* before; env holds the faults, the two answers r1 and r2 of the catalog,
\* the page and the item drawn, and the details faults.
find_and_send_random_item(h, data, pre, env) ==
    IF RandomDecodeRaises(data)
    THEN Out(h, data, TRUE, <<>>, pre, <<>>, <<>>)
    ELSE IF ~env.faults.progress_ok
    THEN Out(h, data, TRUE, <<>>, pre \o <<Msg("edit_text", "progress", FALSE, 0)>>,
             <<>>, <<>>)
    ELSE
    LET item_type == data[2]
        params == RandomParams(item_type, data[3], SubSeq(data, 4, Len(data)))
        endpoint == IF item_type = "movie" THEN "movie" ELSE "tv"
        msgs == pre \o <<Msg("edit_text", "progress", TRUE, 0)>>
        c1 == Call("discover", endpoint, <<"page", "1">> \o params,
                   IF env.r1.status = "ok" THEN 0 ELSE -1, env.r1.status, <<>>)
        total_pages == TotalPages(env.r1)
        results == PosterFilter(Hits(env.r2.page, endpoint, NoDate))
        c2 == Call("discover", endpoint, <<"page", ToString(env.page)>> \o params,
                   IF env.r2.status = "ok" THEN Len(results) ELSE -1, env.r2.status,
                   IF env.r2.status = "ok" THEN Ids(results) ELSE <<>>)
        random_item == results[env.pick]
        e == EnrichBatch(<<random_item>>, item_type, env.down)
        title_prefix == IF item_type = "movie" THEN <<"random_movie">> ELSE <<"random_tv">>
        card == format_item_message(e.items[1], title_prefix, FALSE, 0, 1, "",
                                    ReplaceRandom(data))
    IN IF env.r1.status # "ok"
       THEN RandomExcept(h, data, <<c1>>, msgs, env.faults)
       ELSE IF total_pages = 0
       THEN RandomEdit(h, data, <<c1>>, msgs, "edit_text", "nomatch", <<>>, env.faults)
       ELSE IF env.r2.status # "ok"
       THEN RandomExcept(h, data, <<c1, c2>>, msgs, env.faults)
       ELSE IF results = <<>>
       THEN RandomEdit(h, data, <<c1, c2>>, msgs, "edit_text", "nomatch", <<>>, env.faults)
       ELSE IF e.raised
       THEN RandomExcept(h, data, <<c1, c2>> \o e.calls, msgs, env.faults)
       ELSE RandomEdit(h, data, <<c1, c2>> \o e.calls, msgs, "edit_media", "card",
                       <<card>>, env.faults)

\* everything one run draws from its environment, each choice made only
\* where the run gets to it
RandomEnvs(data, faults) ==
    IF RandomDecodeRaises(data)
    THEN { [faults |-> f, r1 |-> r1, page |-> 1, r2 |-> r1, pick |-> 1, down |-> {}] :
             f \in NoFaults, r1 \in {[status |-> "net_fail", total_pages |-> <<>>]} }
    ELSE UNION { UNION { UNION {
        { [faults |-> f, r1 |-> r1, page |-> pg, r2 |-> r2, pick |-> pk, down |-> dn] :
            pk \in 1 .. (IF r2.status = "ok" /\ PosterFilter(r2.page) # <<>>
                         THEN Len(PosterFilter(r2.page)) ELSE 1),
            dn \in DetailFaults } :
          r2 \in IF r1.status = "ok" /\ TotalPages(r1) > 0 THEN Responses
                 ELSE {[status |-> "net_fail", page |-> <<>>]} } :
          pg \in 1 .. (IF r1.status = "ok" /\ TotalPages(r1) > 0 THEN TotalPages(r1) ELSE 1) } :
          f \in faults, r1 \in FirstResponses }

\* random_selection_handler: the chooser message is deleted, a temporary
\* message is sent, and the pick edits that message
RandomSelection(tokens, faults) ==
    /\ Ready
    /\ \E data \in tokens :
         \E env \in RandomEnvs(data, faults) :
            out' = find_and_send_random_item("random", data,
                      << Msg("delete", "chooser", TRUE, 0),
                         Msg("send_text", "temp", TRUE, 0) >>, env)
    /\ UNCHANGED <<jobs, item_lists, chat_ids, today, walk>>

\* reroll_handler: the pick edits the card that carries the control
Reroll(tokens, faults) ==
    /\ Ready
    /\ \E data \in tokens :
         \E env \in RandomEnvs(data, faults) :
            out' = find_and_send_random_item("reroll", data, <<>>, env)
    /\ UNCHANGED <<jobs, item_lists, chat_ids, today, walk>>

RandomInputs == ChooserTokens \cup Undecodable("random")
RerollInputs == { ReplaceRandom(t) : t \in ChooserTokens } \cup Undecodable("reroll")

\* the two handlers on any callback data their patterns route to them, under
\* any faults of the platform
random_selection_handler == RandomSelection(RandomInputs, EditFaults)
reroll_handler == Reroll(RerollInputs, EditFaults)

\* the two handlers as the controls of the bot's own messages activate them,
\* the platform accepting every edit
random_pick == RandomSelection(ChooserTokens, NoFaults)
reroll_pick == Reroll({ ReplaceRandom(t) : t \in ChooserTokens }, NoFaults)

Next ==
    \/ Tick
    \/ NextUpdate
    \/ start_command
    \/ stop_command
    \/ releases_movie_command
    \/ releases_series_command
    \/ next_movie_command
    \/ next_series_command
    \/ WalkStep
    \/ WalkExhausted
    \/ year_command
    \/ daily_movie_check_job
    \/ daily_series_check_job
    \/ pagination_handler
    \/ random_pick
    \/ reroll_pick

Spec == Init /\ [][Next]_vars

\* the random-pick handlers alone, on every input
NextRandom ==
    \/ random_selection_handler
    \/ reroll_handler
    \/ NextUpdate

SpecRandom == Init /\ [][NextRandom]_vars

\* the discovery commands alone, with the scheduling of the event loop: a
\* walk that has begun runs on, date after date, until it returns
NextCommands ==
    \/ Tick
    \/ NextUpdate
    \/ releases_movie_command
    \/ releases_series_command
    \/ next_movie_command
    \/ next_series_command
    \/ WalkStep
    \/ WalkExhausted
    \/ year_command

SpecCommands ==
    Init /\ [][NextCommands]_vars /\ WF_vars(WalkStep) /\ WF_vars(WalkExhausted)

\* ------------------------------------------------------------ the finders
\* the four finders called with any limit and any horizon, each by the
\* command that answers with its result; out.data holds what the call was
\* given and what the catalog answered
Limits == {1, 2, Limit}
Horizons == 0 .. SearchDays
SearchInput(limit, ru, us, down) == [limit |-> limit, ru |-> ru, us |-> us, down |-> down]

todays_digital_releases ==
    /\ Ready /\ HasRoom(1)
    /\ \E limit \in Limits, ru \in Responses, down \in DetailFaults :
         \E us \in Fallback("movie", ru) :
            LET f == get_todays_top_digital_releases_blocking(limit, today, ru, us, down)
                r == DeliverList("releases_movie", <<SearchInput(limit, ru, us, down)>>,
                                 <<"today_movie">>, f, <<[items |-> f.items]>>, item_lists)
            IN item_lists' = r.store /\ out' = r.out
    /\ UNCHANGED <<jobs, chat_ids, today, walk>>

todays_series_premieres ==
    /\ Ready /\ HasRoom(1)
    /\ \E limit \in Limits, ru \in Responses, down \in DetailFaults :
            LET f == get_todays_top_series_premieres_blocking(limit, today, ru, down)
                r == DeliverList("releases_series", <<SearchInput(limit, ru, ru, down)>>,
                                 <<"today_tv">>, f, <<[items |-> f.items]>>, item_lists)
            IN item_lists' = r.store /\ out' = r.out
    /\ UNCHANGED <<jobs, chat_ids, today, walk>>

next_digital_releases ==
    /\ Ready /\ HasRoom(1)
    /\ \E limit \in Limits, search_days \in Horizons :
         walk' = <<WalkFrame("next_movie", "movie", limit, search_days)>>
    /\ UNCHANGED <<jobs, item_lists, chat_ids, today, out>>

next_series_premieres ==
    /\ Ready /\ HasRoom(1)
    /\ \E limit \in Limits, search_days \in Horizons :
         walk' = <<WalkFrame("next_series", "tv", limit, search_days)>>
    /\ UNCHANGED <<jobs, item_lists, chat_ids, today, out>>

NextFinders ==
    \/ NextUpdate
    \/ todays_digital_releases
    \/ todays_series_premieres
    \/ next_digital_releases
    \/ next_series_premieres
    \/ WalkStep
    \/ WalkExhausted

SpecFinders == Init /\ [][NextFinders]_vars

\* the jobs interleaved with the handlers that change what they read
\* (subscriptions) and what they write (the list store)
NextJobs ==
    \/ NextUpdate
    \/ start_command
    \/ stop_command
    \/ releases_series_command
    \/ daily_movie_check_steps
    \/ daily_series_check_steps

SpecJobs == Init /\ [][NextJobs]_vars

\* ------------------------------------------------------- the sampled page
\* the page counts the first query of a random pick may report: none, 0, 1,
\* a few, the cap of the catalog and beyond
PageCounts == {<<>>, <<0>>, <<1>>, <<3>>, <<MaxPage>>, <<MaxPage + 1>>, <<2 * MaxPage>>}

\* a random pick whose first query is answered with any of these counts and
\* whose random.randint draws any page; out.ret holds the count reported
random_page_pick ==
    /\ Ready
    /\ \E data \in ChooserTokens, f \in NoFaults, total_pages \in PageCounts :
         LET r1 == [status |-> "ok", total_pages |-> total_pages]
         IN \E pg \in 1 .. (IF TotalPages(r1) > 0 THEN TotalPages(r1) ELSE 1),
               r2 \in Responses :
              \E pk \in 1 .. (IF r2.status = "ok" /\ PosterFilter(r2.page) # <<>>
                               THEN Len(PosterFilter(r2.page)) ELSE 1) :
                 LET env == [ faults |-> f, r1 |-> r1, page |-> pg, r2 |-> r2,
                              pick |-> pk, down |-> {} ]
                     o == find_and_send_random_item("random", data,
                             << Msg("delete", "chooser", TRUE, 0),
                                Msg("send_text", "temp", TRUE, 0) >>, env)
                 IN out' = [o EXCEPT !.ret = <<[total_pages |-> total_pages]>>]
    /\ UNCHANGED <<jobs, item_lists, chat_ids, today, walk>>

NextPages ==
    \/ random_page_pick
    \/ NextUpdate

SpecPages == Init /\ [][NextPages]_vars

\* -------------------------------------------------- the availability rule
\* the entries a region of "watch/providers" may hold: none (<<>>), an empty
\* one, one with rentals only, and ones with flatrate and buy lists
RegionEntries ==
    { <<>>,
      <<Entry({}, <<>>, <<>>)>>,
      <<Entry({"link", "rent"}, <<>>, <<>>)>>,
      <<Entry({"flatrate"}, <<1>>, <<>>)>>,
      <<Entry({"buy"}, <<>>, <<2>>)>>,
      <<Entry({"flatrate", "buy"}, <<3>>, <<2>>)>>,
      <<Entry({"flatrate"}, <<4, 1, 3>>, <<>>)>>,
      <<Entry({"flatrate", "buy"}, <<>>, <<2, 2>>)>>,
      <<Entry({"buy"}, <<>>, <<4, 3, 2>>)>>,
      <<Entry({"flatrate"}, <<2, 2>>, <<>>)>>,
      <<Entry({"flatrate", "buy", "rent"}, <<1, 2>>, <<3>>)>> }

\* _get_watch_status_string applied to the provider data of some details
watch_status_string ==
    /\ Ready
    /\ \E ru \in RegionEntries, us \in RegionEntries :
         out' = Out("watch_status", <<Providers(ru, us)>>, FALSE, <<>>, <<>>, <<>>,
                    <<get_watch_status_string(Providers(ru, us))>>)
    /\ UNCHANGED <<jobs, item_lists, chat_ids, today, walk>>

NextWatch ==
    \/ watch_status_string
    \/ NextUpdate

SpecWatch == Init /\ [][NextWatch]_vars

\* ------------------------------------------------------------------ claims
\* the controls of a card
Buttons(card) ==
    UNION { { card.markup[r][b] : b \in DOMAIN card.markup[r] } : r \in DOMAIN card.markup }
PageButtons(card) == { b \in Buttons(card) : b.callback_data # <<>> /\ b.callback_data[1] = "page" }
RerollButtons(card) == { b \in Buttons(card) : b.text = <<"reroll">> }
HasNavRow(card) == \E r \in DOMAIN card.markup : Len(card.markup[r]) = 3

\* C1: no step changes, reorders, replaces or deletes a list the store holds:
\* every id of the store still maps to the same items, in the same order,
\* after any handler, job or clock step.
C1_ListsImmutable ==
    [][\A id \in DOMAIN item_lists : Lookup(item_lists', id) = <<item_lists[id]>>]_vars

\* C1 witness: two lists were created and a page of one of them was rendered
C1_Witness ==
    /\ Cardinality(DOMAIN item_lists) >= 2
    /\ out.h = "page" /\ out.cards # <<>>

\* C2: a page token whose list is unknown or whose index is out of range
\* gets the stale-list message, no card, and no exception.
C2_StaleHandled ==
    (out.h = "page" /\ PageDecodes(out.data)
     /\ PageStale(Lookup(item_lists, out.data[2]), ParseInt(out.data[3])))
    => /\ out.msgs # <<>> /\ out.msgs[1].what = "stale"
       /\ out.cards = <<>>
       /\ ~out.raised

\* C3: activating the token of a rendered page again, in any later state,
\* renders the same card (text with its title prefix, poster, controls).
C3_PaginationIdempotent ==
    (out.h = "page" /\ out.cards # <<>> /\ out.msgs[1].ok)
    => PageCard(out.data, item_lists, today) = out.cards[1]

\* the position and total of every card the last handler rendered
Rendered ==
    IF out.cards = <<>> THEN {}
    ELSE IF out.h = "page"
    THEN { [card |-> out.cards[1], index |-> ParseInt(out.data[3]),
            total |-> Len(item_lists[out.data[2]])] }
    ELSE IF out.h \in {"random", "reroll"}
    THEN { [card |-> out.cards[1], index |-> 0, total |-> 1] }
    ELSE { [card |-> out.cards[k], index |-> 0,
            total |-> Len(item_lists[Uuids[Cardinality(DOMAIN item_lists)]])] :
           k \in DOMAIN out.cards }

\* C4: a card at index 0 has no control leading to an earlier index, a card
\* at index total-1 none leading to a later index, and a card of a
\* one-item list no navigation row.
C4_NavBoundaries ==
    \A r \in Rendered :
        /\ r.index = 0 =>
              ~\E b \in PageButtons(r.card) : ParseInt(b.callback_data[3]) < r.index
        /\ r.index = r.total - 1 =>
              ~\E b \in PageButtons(r.card) : ParseInt(b.callback_data[3]) > r.index
        /\ r.total = 1 => ~HasNavRow(r.card) /\ PageButtons(r.card) = {}

\* C4 witness: the last page of a three-item list and the card of a one-item
\* list were rendered
C4_Witness ==
    \E r \in Rendered :
        /\ out.h = "page" /\ r.total = 3 /\ r.index = 2
        /\ \E b \in PageButtons(r.card) : ParseInt(b.callback_data[3]) = 1


\* C5: callback data that a random or reroll handler cannot decode is
\* ignored: no exception, no message sent, edited or deleted, no catalog call.
C5_UndecodableIgnored ==
    (out.h \in {"random", "reroll"} /\ out.data \in Undecodable(out.h))
    => ~out.raised /\ out.msgs = <<>> /\ out.calls = <<>>

\* the platform accepted every call of the last handler
PlatformOk == \A k \in DOMAIN out.msgs : out.msgs[k].ok

\* C6: for a genre token of a chooser, once the sampled page holds a
\* poster-bearing hit, the details are fetched with a kind the catalog
\* serves, and when that fetch succeeds a one-item card without navigation
\* row is delivered, with the random-pick prefix and a reroll control.
C6_GenrePickDelivers ==
    (/\ out.h = "random" /\ out.data \in ChooserTokens /\ out.data[3] = "genre"
     /\ PlatformOk
     /\ Len(out.calls) >= 2 /\ out.calls[2].n >= 1)
    => /\ Len(out.calls) = 3
       /\ out.calls[3].op = "details" /\ out.calls[3].kind \in DetailKinds
       /\ out.calls[3].n = 0 =>
            /\ out.cards # <<>>
            /\ ~HasNavRow(out.cards[1])
            /\ out.cards[1].text.prefix \in {<<"random_movie">>, <<"random_tv">>}
            /\ RerollButtons(out.cards[1]) # {}

\* the filter a token asks for: the endpoint and the query parameters
FilterOf(data) ==
    <<IF data[2] = "movie" THEN "movie" ELSE "tv">>
    \o RandomParams(data[2], data[3], SubSeq(data, 4, Len(data)))
CallFilter(call) == <<call.kind>> \o SubSeq(call.q, 3, Len(call.q))

\* C7: a run started by the reroll control of a chooser token queries the
\* catalog with the filter of that token, and every card a random or reroll
\* run delivers carries exactly one reroll control, whose data is "reroll"
\* followed by the media kind, selector and genre id of the run's own data.
C7_RerollKeepsFilter ==
    /\ \A t \in ChooserTokens :
         (out.h = "reroll" /\ out.data = <<"reroll">> \o Tail(t))
         => /\ ~(out.raised /\ out.msgs = <<>>)
            /\ \A k \in DOMAIN out.calls :
                 out.calls[k].op = "discover" => CallFilter(out.calls[k]) = FilterOf(t)
    /\ (out.h \in {"random", "reroll"} /\ out.cards # <<>>)
         => /\ Cardinality(RerollButtons(out.cards[1])) = 1
            /\ \A b \in RerollButtons(out.cards[1]) :
                 b.callback_data = <<"reroll">> \o Tail(out.data)

\* C7 witness: the reroll control of the genre token of a movie was
\* activated, sampled a page with three qualifying hits, picked the last of
\* them and delivered its card
C7_Witness ==
    /\ out.h = "reroll" /\ out.data = <<"reroll", "movie", "genre", "28">>
    /\ out.cards # <<>> /\ PlatformOk
    /\ out.calls[2].n = 3 /\ out.calls[3].q[1] = "4"
    /\ \E b \in RerollButtons(out.cards[1]) : b.callback_data = out.data

\* the last run was a random pick over a filter without qualifying item:
\* the catalog answered, with total_pages 0 or with a page without poster hit
NoQualifyingItem ==
    /\ out.h \in {"random", "reroll"}
    /\ \/ Len(out.calls) = 1 /\ out.calls[1].n = 0 /\ Len(out.msgs) > 0
          /\ out.msgs[Len(out.msgs)].what # "progress"
       \/ Len(out.calls) = 2 /\ out.calls[2].n = 0

\* C8: a random pick over a filter without qualifying item ends with the
\* no-match message, raises nothing, and fetches no details.
C8_NoMatch ==
    NoQualifyingItem
    => /\ ~out.raised
       /\ out.msgs[Len(out.msgs)].what = "nomatch" /\ out.msgs[Len(out.msgs)].ok
       /\ \A k \in DOMAIN out.calls : out.calls[k].op # "details"
       /\ out.cards = <<>>

\* the records of a store, and whether a poster path is one
Posterless(path) == path \in {None, ""}
StoredItems == UNION { { item_lists[id][i] : i \in DOMAIN item_lists[id] } : id \in DOMAIN item_lists }

\* C9: every stored record has a poster path and the poster URL built from
\* it, every details fetch is for a hit with a poster path, and every card
\* shows a poster URL with a poster path.
C9_PosterAlways ==
    /\ \A item \in StoredItems :
         ~Posterless(item.poster_path) /\ item.poster_url = PosterUrl(item.poster_path)
    /\ \A k \in DOMAIN out.calls :
         out.calls[k].op = "details" => ~Posterless(out.calls[k].q[2])
    /\ \A k \in DOMAIN out.cards : ~Posterless(out.cards[k].poster[2])

\* C9 witness: a list was stored and its card delivered by a today search
\* whose page also held a hit without poster (every page with hits does)
C9_Witness ==
    /\ out.h = "releases_series" /\ out.cards # <<>>
    /\ Cardinality(StoredItems) = 3

IsDiscover(call) == call.op = "discover"
CallDate(call) == <<call.q[2], call.q[3]>>
ItemDate(item) == IF item.release_date # NoDate THEN item.release_date ELSE item.first_air_date

\* C10: when a walk returns, the dates it queried are tomorrow, tomorrow+1,
\* ... in that order, at most search_days of them; if it returns a date, that
\* is the last date queried, its last query gave a hit, no query before gave
\* one, and the items returned are hits of that date; if it returns no date
\* it returns no items, has queried all search_days dates without a hit, and
\* the command answers with the no-results reply.
C10_WalkFindsEarliest ==
    (out.h \in {"next_movie", "next_series"} /\ out.ret # <<>>)
    => LET r == out.ret[1]
           d == SelectSeq(out.calls, IsDiscover)
           day(k) == CHOOSE j \in 0 .. r.search_days - 1 :
                        CallDate(d[k]) = FmtDate(AddDays(r.start_date, j))
           days == { day(k) : k \in DOMAIN d }
       IN /\ \A k \in DOMAIN d : \E j \in 0 .. r.search_days - 1 :
                 CallDate(d[k]) = FmtDate(AddDays(r.start_date, j))
          /\ \A k, l \in DOMAIN d : k < l => day(k) <= day(l)
          /\ days = 0 .. Cardinality(days) - 1
          /\ r.date # NoDate =>
               /\ r.date = AddDays(r.start_date, Cardinality(days) - 1)
               /\ d[Len(d)].n >= 1
               /\ \A k \in 1 .. Len(d) - 1 : d[k].n = 0
               /\ r.items # <<>>
               /\ Len(r.items) = Min(d[Len(d)].n, Limit)
               /\ \A i \in DOMAIN r.items : ItemDate(r.items[i]) = r.date
          /\ r.date = NoDate =>
               /\ r.items = <<>>
               /\ Cardinality(days) = r.search_days
               /\ \A k \in DOMAIN d : d[k].n = 0
               /\ out.msgs[Len(out.msgs)].what = "none" /\ ~out.raised

\* C10 witness: a walk of movies found nothing on its first date, in either
\* region, and returned the hits of its second date
C10_Witness ==
    /\ out.h = "next_movie" /\ out.ret # <<>>
    /\ out.ret[1].date = AddDays(out.ret[1].start_date, 1)
    /\ Len(SelectSeq(out.calls, IsDiscover)) = 4


\* the ids of the poster-bearing hits of a page, in the order received
HasPoster(raw) == ~Posterless(raw.poster_path)
PosterIds(page) == Ids(SelectSeq(page, HasPoster))

\* the availability summary computed from one region's entry alone
StatusFrom(entry) == get_watch_status_string(Providers(<<>>, entry))

\* the last run was a today search of movies whose preferred region answered
\* without a poster-bearing hit and whose fallback region answered with some
R1EmptyR2Hits ==
    /\ out.h = "releases_movie" /\ out.data # <<>>
    /\ out.data[1].ru.status = "ok" /\ PosterIds(out.data[1].ru.page) = <<>>
    /\ out.data[1].us.status = "ok" /\ PosterIds(out.data[1].us.page) # <<>>

\* C11 as stated: when R1 gives no candidate and R2 gives some, the search
\* returns the R2 candidates in the order received, and the availability
\* summary of each is computed from its R2 (US) provider data.
C11_FallbackAvailabilityFromR2 ==
    (R1EmptyR2Hits /\ out.ret # <<>>)
    => LET items == out.ret[1].items
       IN /\ Ids(items) = Take(PosterIds(out.data[1].us.page), out.data[1].limit)
          /\ \A i \in DOMAIN items :
               items[i].watch_status = StatusFrom(ProvidersOf(items[i].id).US)

\* C11 amended: when R1 gives no candidate and R2 gives some, the search
\* returns the first `limit` R2 candidates in the order received (or raises,
\* when the details fetch of one of them fails), and the availability summary
\* of each is computed from the record's own provider data: from its RU entry
\* when the details carry one, from its US entry otherwise.
C11_FallbackOrderAndAvailability ==
    R1EmptyR2Hits
    => LET want == Take(PosterIds(out.data[1].us.page), out.data[1].limit)
       IN IF \E i \in DOMAIN want : want[i] \in out.data[1].down
          THEN out.ret = <<>> /\ out.cards = <<>>
               /\ out.msgs[Len(out.msgs)].what = "error"
          ELSE /\ out.ret # <<>>
               /\ Ids(out.ret[1].items) = want
               /\ Len(out.calls) = 2 + Len(want)
               /\ out.calls[1].q[4] = "RU" /\ out.calls[2].q[4] = "US"
               /\ \A i \in DOMAIN want :
                    LET item == out.ret[1].items[i]
                        p == ProvidersOf(item.id)
                    IN item.watch_status =
                         IF p.RU # <<>> THEN StatusFrom(p.RU) ELSE StatusFrom(p.US)

\* C11 witness: the fallback region gave three candidates, the search
\* returned the first two of them, and the first has offers in both regions
C11_Witness ==
    /\ R1EmptyR2Hits /\ out.ret # <<>>
    /\ Ids(out.ret[1].items) = <<1, 3>>
    /\ ProvidersOf(1).RU # <<>> /\ StatusFrom(ProvidersOf(1).US) # Unknown


\* the discovery commands, and the replies that end one
Commands == {"releases_movie", "releases_series", "next_movie", "next_series", "year"}
FinalReplies == {"card", "none", "error", "usage", "bad_year"}
LastMsg == out.msgs[Len(out.msgs)]
SomeCallRaised == \E k \in DOMAIN out.calls : out.calls[k].n = -1

\* C12: whatever the catalog, details and translation calls return or raise,
\* a discovery command lets no exception escape and ends with a final reply
\* (a card, a no-results message, or the apology when a call raised), and a
\* next-release walk that has begun eventually returns and is answered.
C12_CommandsAnswered ==
    /\ [](out.h \in Commands
          => /\ ~out.raised
             /\ out.msgs # <<>> /\ LastMsg.ok /\ LastMsg.what \in FinalReplies
             /\ SomeCallRaised => LastMsg.what = "error")
    /\ [](walk # <<>> => <>(walk = <<>> /\ out.h \in {"next_movie", "next_series"}))

\* C12 witness: a walk of movies whose second date could not be fetched was
\* answered with the apology
C12_Witness ==
    /\ out.h = "next_movie" /\ walk = <<>>
    /\ Len(out.calls) >= 3 /\ out.calls[Len(out.calls)].op = "discover"
    /\ out.calls[Len(out.calls)].status = "net_fail"
    /\ LastMsg.what = "error" /\ ~out.raised


\* an edit of the existing message that the platform rejected
FailedEdits == { k \in DOMAIN out.msgs : out.msgs[k].op \in {"edit_text", "edit_media"}
                                          /\ ~out.msgs[k].ok }

\* C13: in the pagination, random-selection and reroll handlers a failing
\* edit of the existing message (the card, the stale-list message, the
\* progress message, the no-match or the apology message) is swallowed: no
\* exception escapes the handler, and the list store is unchanged.
C13_EditFailureSwallowed ==
    (out.h \in {"page", "random", "reroll"} /\ FailedEdits # {}) => ~out.raised


\* the last run was a scheduled run whose search found a release
JobFound ==
    /\ out.h \in {"daily_movie", "daily_series"}
    /\ ~SomeCallRaised
    /\ \E k \in DOMAIN out.calls : out.calls[k].op = "discover" /\ out.calls[k].n >= 1

\* C14: a scheduled run that finds a release sends the first card to every
\* chat subscribed at the start of the run, whether or not the send to
\* another chat failed.
C14_JobReachesEveryChat ==
    JobFound
    => \A chat_id \in chat_ids :
         \E k \in DOMAIN out.msgs :
            out.msgs[k].op = "send_photo" /\ out.msgs[k].to = chat_id


\* the last run was a page navigation over a list id the store never held
PageOfUnknownList ==
    /\ out.h = "page" /\ PageDecodes(out.data)
    /\ out.data[2] \notin DOMAIN item_lists

\* the store as it would be if that id mapped to an empty list
WithEmptyList == StoreList(item_lists, out.data[2], <<>>)

\* C15 as stated: the lookup of an id never created differs from the lookup
\* of an id that maps to an empty list, and the pagination handler does not
\* treat the two the same way.
C15_NotFoundTreatedApart ==
    (PageOfUnknownList /\ LastMsg.ok)
    => /\ Lookup(item_lists, out.data[2]) # Lookup(WithEmptyList, out.data[2])
       /\ out # PageOut(out.data, WithEmptyList, today, LastMsg.ok)

\* C15 amended: the lookup of an id never created yields not-found, which
\* differs from the lookup of an id that maps to an empty list; the
\* pagination handler treats the two the same way: the stale-list message
\* and no card.
C15_NotFoundDistinctInStore ==
    PageOfUnknownList
    => /\ Lookup(item_lists, out.data[2]) = <<>>
       /\ Lookup(item_lists, out.data[2]) # Lookup(WithEmptyList, out.data[2])
       /\ out = PageOut(out.data, WithEmptyList, today, LastMsg.ok)
       /\ LastMsg.what = "stale" /\ out.cards = <<>>

\* C15 witness: a page token of a list id that was never created arrived
\* while the store held another list, and the stale-list message was shown
C15_Witness ==
    /\ PageOfUnknownList /\ out.data[2] = "abc123"
    /\ DOMAIN item_lists # {} /\ LastMsg.ok


\* the last run was a walk that returned
WalkReturned == out.h \in {"next_movie", "next_series"} /\ out.ret # <<>>

\* C16: a next-release walk with a horizon of 0 days returns an empty list
\* and no date, and makes no catalog or details call (and so translates
\* nothing), for movies and for series.
C16_ZeroHorizon ==
    (WalkReturned /\ out.ret[1].search_days = 0)
    => /\ out.ret[1].items = <<>> /\ out.ret[1].date = NoDate
       /\ out.calls = <<>> /\ out.cards = <<>>

\* C16 witness: a walk of series with horizon 0 returned nothing, without a
\* call, and was answered with the no-results reply
C16_Witness ==
    /\ WalkReturned /\ out.h = "next_series"
    /\ out.ret[1].search_days = 0 /\ out.calls = <<>>
    /\ LastMsg.what = "none"


\* the catalog calls of the last run, by kind
Discovers == SelectSeq(out.calls, IsDiscover)
IsDetails(call) == call.op = "details"
Details == SelectSeq(out.calls, IsDetails)
FailedDetails == { ParseInt(Details[k].q[1]) : k \in { j \in DOMAIN Details : Details[j].n = -1 } }

\* the batch of the last command: the candidates of its last search that it
\* set out to enrich
Batch ==
    IF Discovers = <<>> THEN <<>>
    ELSE Take(Discovers[Len(Discovers)].ids, IF out.h = "year" THEN YearLimit ELSE Limit)

\* C17: when the details fetch fails for one candidate of a batch of
\* several, the command still delivers a card of a candidate whose fetch did
\* not fail, and does not answer with the error message.
C17_FailedCandidateDropped ==
    (/\ out.h \in Commands
     /\ Len(Batch) >= 2
     /\ FailedDetails # {} /\ Range(Batch) \ FailedDetails # {})
    => /\ LastMsg.what = "card"
       /\ out.cards # <<>> /\ out.cards[1].text.title \in Range(Batch) \ FailedDetails


\* the searches of the last run that the catalog answered with a non-2xx
Non2xx == { k \in DOMAIN Discovers : Discovers[k].status = "http_error" }

\* C18: in every date-filtered search a non-2xx answer of the catalog ends
\* the command with the error message: it is the last search of the run, and
\* the run ends neither with a card nor with a no-results message.
C18_Non2xxIsUnavailable ==
    (out.h \in Commands /\ Non2xx # {})
    => /\ Non2xx = {Len(Discovers)}
       /\ LastMsg.what = "error"


\* the last run was a today search whose preferred region answered
TodaySearch ==
    /\ out.h \in {"releases_movie", "releases_series"} /\ out.data # <<>>
    /\ out.data[1].ru.status = "ok"
R1Ids == PosterIds(out.data[1].ru.page)
R2Ids == PosterIds(out.data[1].us.page)
AskedR2 == Len(Discovers) = 2 /\ Discovers[2].q[4] = "US"

HasOffers(entry) == entry # <<>> /\ (entry[1].flatrate # <<>> \/ entry[1].buy # <<>>)

\* C20: the availability summary is computed from the preferred region when
\* it has offers, from the secondary region when the preferred one has none
\* (no entry, an empty entry, or neither streaming nor purchase providers)
\* and the secondary has, and is "unknown" only when neither has offers.
C20_AvailabilityFallsBack ==
    out.h = "watch_status"
    => LET p == out.data[1]
           status == out.ret[1]
       IN /\ HasOffers(p.RU) => status = StatusFrom(p.RU)
          /\ (~HasOffers(p.RU) /\ HasOffers(p.US)) => status = StatusFrom(p.US)
          /\ status = Unknown <=> (~HasOffers(p.RU) /\ ~HasOffers(p.US))


\* the candidate a returned record was enriched from: the hit of that id on
\* the page of the region the today search used
UsedPage ==
    IF out.h = "releases_movie" /\ R1Ids = <<>> THEN out.data[1].us.page
    ELSE out.data[1].ru.page
CandidateOf(item) ==
    LET k == CHOOSE j \in DOMAIN UsedPage : UsedPage[j].id = item.id
    IN Hit(UsedPage[k], IF out.h = "releases_movie" THEN "movie" ELSE "tv", today)
CandidateFields ==
    {"id", "title", "poster_path", "vote_average", "genre_ids", "release_date", "first_air_date"}

\* C21: a today search in which no catalog or details call raised returns
\* its records, whether or not their translation failed; a record whose
\* translation raised keeps the candidate's synopsis, a translated one has
\* the translation, and every other field of the candidate (id, title,
\* poster path, rating, genre ids, dates) is carried over unmodified.
C21_TranslationNeverFails ==
    TodaySearch
    => /\ out.ret = <<>> => SomeCallRaised
       /\ out.ret # <<>> =>
            \A i \in DOMAIN out.ret[1].items :
               LET item == out.ret[1].items[i]
                   c == CandidateOf(item)
               IN /\ \A f \in CandidateFields : item[f] = c[f]
                  /\ TranslatorFails(c.overview) => item.overview = c.overview
                  /\ (~TranslatorFails(c.overview) /\ c.overview # <<>>)
                       => item.overview = <<"ru">> \o c.overview
                  /\ c.overview = <<>> => item.overview = <<>>

\* C21 witness: a search returned three records, of which the third could
\* not be translated and kept its synopsis
C21_Witness ==
    /\ TodaySearch /\ out.ret # <<>>
    /\ Len(out.ret[1].items) = 3
    /\ TranslatorFails(CandidateOf(out.ret[1].items[3]).overview)
    /\ out.ret[1].items[3].overview = OverviewOf(4)


\* C22: the page a random pick asks for in its second query lies in
\* [1, min(totalPages, 500)] for the totalPages its first query reported (1
\* when the answer has none), and with totalPages 0 there is no second query.
C22_PageInRange ==
    (out.h = "random" /\ out.ret # <<>>)
    => LET reported == out.ret[1].total_pages
           cap == Min(IF reported = <<>> THEN 1 ELSE reported[1], MaxPage)
       IN /\ Len(Discovers) \in {1, 2}
          /\ cap = 0 <=> Len(Discovers) = 1
          /\ Len(Discovers) = 2
               => \E page \in 1 .. cap : Discovers[2].q[2] = ToString(page)

\* C22 witness: the first query reported more pages than the cap and the
\* second query asked for the page at the cap
C22_Witness ==
    /\ out.h = "random" /\ out.ret # <<>>
    /\ out.ret[1].total_pages = <<MaxPage + 1>>
    /\ Len(Discovers) = 2 /\ Discovers[2].q[2] = ToString(MaxPage)

\* the cards a job run has sent so far
JobSent(j) == IF jobs[j] = <<>> THEN <<>> ELSE jobs[j][1].sent
SentKeys == { <<j, k>> : j \in JobNames, k \in 1 .. MaxLists }
Sends == { jk \in SentKeys : jk[2] \in DOMAIN JobSent(jk[1]) }
SentIds == { JobSent(jk[1])[jk[2]].list_id : jk \in Sends }

\* C23: with commands and the steps of both jobs interleaved, every card a
\* job sent carries page tokens of its own list id only, that id maps to the
\* items its run found, no two sends share an id, and the card of an
\* interleaved command refers to a list of its own that holds its items.
C23_OwnFreshList ==
    /\ \A jk \in Sends :
          LET s == JobSent(jk[1])[jk[2]]
          IN /\ Lookup(item_lists, s.list_id) = <<jobs[jk[1]][1].items>>
             /\ \A t \in s.tokens : (t # <<>> /\ t[1] = "page") => t[2] = s.list_id
    /\ \A a, b \in Sends :
          a # b => JobSent(a[1])[a[2]].list_id # JobSent(b[1])[b[2]].list_id
    /\ (out.h = "releases_series" /\ out.cards # <<>>)
       => \A b \in PageButtons(out.cards[1]) :
             /\ b.callback_data[2] \notin SentIds
             /\ Lookup(item_lists, b.callback_data[2]) # <<>>
             /\ item_lists[b.callback_data[2]][1].id = out.cards[1].text.title

\* C23 witness: the movie job is between two sends, its first card out, and
\* the series job has sent a card of other items in the meantime
C23_Witness ==
    /\ jobs["daily_movie"] # <<>> /\ jobs["daily_movie"][1].pc = "loop"
    /\ Len(JobSent("daily_movie")) = 1 /\ Len(JobSent("daily_series")) = 1
    /\ jobs["daily_series"][1].items # jobs["daily_movie"][1].items
    /\ \E t \in JobSent("daily_series")[1].tokens : t # <<>> /\ t[1] = "page"

\* C24: while a walk is between two of its date searches, another update
\* (a /start, a /stop, a page control) can be handled.
C24_WalkYields ==
    walk # <<>> => ENABLED (start_command \/ stop_command \/ pagination_handler)

\* C25: every page token on a card the last handler or job delivered or
\* re-rendered decodes, names a list the store holds and an index inside
\* that list, so that activating it does not give the stale-list outcome.
C25_TokensValid ==
    \A c \in DOMAIN out.cards :
       \A b \in PageButtons(out.cards[c]) :
          /\ PageDecodes(b.callback_data)
          /\ b.callback_data[2] \in DOMAIN item_lists
          /\ 0 <= ParseInt(b.callback_data[3])
          /\ ParseInt(b.callback_data[3]) < Len(item_lists[b.callback_data[2]])
          /\ ~PageStale(Lookup(item_lists, b.callback_data[2]),
                        ParseInt(b.callback_data[3]))

\* C25 witness: a page in the middle of a list was re-rendered, with a
\* control to the page before it and one to the page after it
C25_Witness ==
    /\ out.h = "page" /\ out.cards # <<>>
    /\ Cardinality(PageButtons(out.cards[1])) = 2

\* C26: the card at index 0 that the pagination handler re-renders for the
\* list a discovery command has just created carries the title prefix of
\* the card the command delivered.
C26_PrefixKept ==
    (out.h \in Commands /\ out.cards # <<>>)
    => \A b \in PageButtons(out.cards[1]) :
          PageCard(<<"page", b.callback_data[2], "0">>, item_lists, today).text.prefix
             = out.cards[1].text.prefix

\* C27 as stated: every card a scheduled run has sent went to a chat that
\* was in the subscription set at the moment of that send.
C27_NeverSentAfterStop ==
    \A jk \in Sends : JobSent(jk[1])[jk[2]].subscribed

\* C27 amended: every card a scheduled run has sent went to a chat of the
\* copy of the subscription set the run took when its loop began, and to no
\* chat twice; a chat that has left the set since may be among them.
C27_SentToSnapshot ==
    \A j \in JobNames :
       /\ \A k \in DOMAIN JobSent(j) : JobSent(j)[k].to \in jobs[j][1].snapshot
       /\ \A k, l \in DOMAIN JobSent(j) :
             k # l => JobSent(j)[k].to # JobSent(j)[l].to

\* C27 witness: a run in progress sent a card to a chat whose /stop had
\* completed between the start of the loop and that send
C27_Witness ==
    \E jk \in Sends :
       /\ ~JobSent(jk[1])[jk[2]].subscribed
       /\ JobSent(jk[1])[jk[2]].ok
       /\ JobSent(jk[1])[jk[2]].to \notin chat_ids

====
